---- MODULE Spec2Model ----
(***************************************************************************)
(* Model of doge-hack's TransactionBuilder (src/src/transaction.rs): the   *)
(* builder's input and output lists, the operations add_input, add_output, *)
(* sign_input, sign_input_p2sh_multisig, build and clone, and the pure     *)
(* functions they call.                                                    *)
(*                                                                         *)
(* Hashes and signatures are symbolic: a digest is the record of what was  *)
(* hashed, a signature the record of key and message, so two of them are   *)
(* equal exactly when what went into them is equal (collision-free SHA256, *)
(* deterministic RFC 6979 ECDSA as used by secp.sign_ecdsa).               *)
(***************************************************************************)
EXTENDS Integers, Sequences, FiniteSets, TLC

\* ------------------------------------------------------------------ bounds

\* how many calls that return (add_input, add_output, a sign method, clone)
\* one run makes on the builder before it is built or a call panics
MaxCalls == 5

\* --------------------------------------------------------- program constants

\* bitcoin::Sequence::ENABLE_RBF_NO_LOCKTIME = 0xFFFFFFFD, as its four bytes,
\* least significant first (the value exceeds TLC's 32-bit integers)
ENABLE_RBF_NO_LOCKTIME == <<253, 255, 255, 255>>
\* bitcoin::transaction::Version::ONE
VersionOne == 1
\* bitcoin::absolute::LockTime::ZERO
LockTimeZero == 0
\* EcdsaSighashType::All.to_u32()
SighashAll == 1
\* a Txid is 32 bytes, 64 hex characters in display form
TxidBytes == 32

\* ------------------------------------------------------------------ network

Networks == {"Testnet", "Mainnet"}

\* Bitcoin's P2PKH version bytes in place of Dogecoin's
p2pkh_version_byte_bitcoin(network) == IF network = "Testnet" THEN 111 ELSE 0

p2pkh_version_byte(network) == IF network = "Testnet" THEN 113 ELSE 30

\* one P2SH version byte for both networks
p2sh_version_byte_shared(network) == 196

p2sh_version_byte(network) == IF network = "Testnet" THEN 196 ELSE 22

\* ------------------------------------------------------------------ scripts
\* A script is a sequence of items [op, data]: an opcode has empty data, a
\* push carries its data.  Data is a record whose field says what the bytes
\* are: [bytes], [der, hashtype], [pubkey_of] or [script].

Op(name) == [op |-> name, data |-> [none |-> TRUE]]

Push(d) == [op |-> "PUSHBYTES", data |-> d]

EmptyScript == << >>

\* ------------------------------------------------------------------ address

from_pubkey_hash(pubkey_hash20, network) ==
    [payload |-> <<p2pkh_version_byte(network)>> \o pubkey_hash20, network |-> network]

from_script_hash(script_hash20, network) ==
    [payload |-> <<p2sh_version_byte(network)>> \o script_hash20, network |-> network]

kind(address) ==
    LET version == address.payload[1]
    IN  IF version = p2pkh_version_byte(address.network) THEN "P2pkh"
        ELSE IF version = p2sh_version_byte(address.network) THEN "P2sh"
        ELSE "P2pkh"

\* the first twenty bytes of the payload, the version byte among them
hash160_with_version(address) == SubSeq(address.payload, 1, 20)

hash160(address) == SubSeq(address.payload, 2, 21)

\* ---------------------------------------------------------------- txid text
\* The text of a txid is a sequence of characters; a character is its hex
\* value 0..15, or NonHex for any character that is not a hex digit.

NonHex == 16

\* the bytes kept in the displayed order
TxidFromStrAsDisplayed(txid_hex) ==
    IF Len(txid_hex) = 2 * TxidBytes /\ \A i \in 1..Len(txid_hex) : txid_hex[i] \in 0..15
    THEN [ok |-> TRUE,
          txid |-> [k \in 1..TxidBytes |-> 16 * txid_hex[2 * k - 1] + txid_hex[2 * k]]]
    ELSE [ok |-> FALSE, txid |-> << >>]

\* Txid::from_str (transaction.rs:34): exactly 64 hex digits, two per byte;
\* the Txid keeps the bytes in the reverse of the displayed order.
TxidFromStr(txid_hex) ==
    IF Len(txid_hex) = 2 * TxidBytes /\ \A i \in 1..Len(txid_hex) : txid_hex[i] \in 0..15
    THEN [ok |-> TRUE,
          txid |-> [k \in 1..TxidBytes |->
                      16 * txid_hex[2 * (TxidBytes + 1 - k) - 1] + txid_hex[2 * (TxidBytes + 1 - k)]]]
    ELSE [ok |-> FALSE, txid |-> << >>]

\* -------------------------------------------------------------- transaction

\* an input made final: Sequence::MAX instead of the RBF constant
NewTxInFinal(txid, vout) ==
    [previous_output |-> [txid |-> txid, vout |-> vout],
     script_sig |-> EmptyScript,
     sequence |-> <<255, 255, 255, 255>>,
     witness |-> << >>]

\* TxIn { previous_output, script_sig, sequence, witness } as add_input makes it
NewTxIn(txid, vout) ==
    [previous_output |-> [txid |-> txid, vout |-> vout],
     script_sig |-> EmptyScript,
     sequence |-> ENABLE_RBF_NO_LOCKTIME,
     witness |-> << >>]

\* a push that overwrites the last element instead of growing the list
VecPushOverLast(v, x) == IF v = << >> THEN <<x>> ELSE [v EXCEPT ![Len(v)] = x]

\* a push at the front
VecPushFront(v, x) == <<x>> \o v

\* Vec::push
VecPush(v, x) == Append(v, x)

\* the locking script add_output derives from the address
OutputScript(address) ==
    IF kind(address) = "P2pkh"
    THEN << Op("OP_DUP"), Op("OP_HASH160"), Push([bytes |-> hash160(address)]),
            Op("OP_EQUALVERIFY"), Op("OP_CHECKSIG") >>
    ELSE << Op("OP_HASH160"), Push([bytes |-> hash160(address)]), Op("OP_EQUAL") >>

\* the amount narrowed to its low 32 bits
NewTxOutLow32(address, amount_satoshis) ==
    [value |-> <<amount_satoshis[1], amount_satoshis[2], 0, 0>>,
     script_pubkey |-> OutputScript(address)]

NewTxOut(address, amount_satoshis) ==
    [value |-> amount_satoshis, script_pubkey |-> OutputScript(address)]

\* build(self): the lists move into the Transaction
BuildTx(ins, outs) ==
    [version |-> VersionOne, lock_time |-> LockTimeZero, input |-> ins, output |-> outs]

\* a signing snapshot with another version than build() gives
to_transaction_ref_v2(ins, outs) ==
    [version |-> 2, lock_time |-> LockTimeZero, input |-> ins, output |-> outs]

\* to_transaction_ref(&self): the same, from clones of the lists
to_transaction_ref(ins, outs) ==
    [version |-> VersionOne, lock_time |-> LockTimeZero, input |-> ins, output |-> outs]

\* --------------------------------------------------------- legacy sighash
\* SighashCache::legacy_signature_hash(input_index, script_code, sighash_type)
\* for SIGHASH_ALL: the transaction with script_code as the script of input
\* input_index (0-based) and every other input's script empty, serialised
\* with the sighash type appended, and hashed twice.  An index that is not an
\* input's is an error.

\* the inputs hashed as they stand: no script replaced, none cleared
SighashInputsAsIs(t, input_index, script_code) ==
    [n \in 1..Len(t.input) |->
        [previous_output |-> t.input[n].previous_output,
         script_sig |-> t.input[n].script_sig,
         sequence |-> t.input[n].sequence]]

\* the other inputs' scripts left in place, only the target's replaced
SighashInputsOthersKept(t, input_index, script_code) ==
    [n \in 1..Len(t.input) |->
        [previous_output |-> t.input[n].previous_output,
         script_sig |-> IF n = input_index + 1 THEN script_code ELSE t.input[n].script_sig,
         sequence |-> t.input[n].sequence]]

\* the other inputs' scripts cleared, the target's own script hashed where
\* it holds one
SighashInputsOwnKept(t, input_index, script_code) ==
    [n \in 1..Len(t.input) |->
        [previous_output |-> t.input[n].previous_output,
         script_sig |-> IF n # input_index + 1 THEN EmptyScript
                        ELSE IF t.input[n].script_sig # EmptyScript THEN t.input[n].script_sig
                        ELSE script_code,
         sequence |-> t.input[n].sequence]]

SighashInputs(t, input_index, script_code) ==
    [n \in 1..Len(t.input) |->
        [previous_output |-> t.input[n].previous_output,
         script_sig |-> IF n = input_index + 1 THEN script_code ELSE EmptyScript,
         sequence |-> t.input[n].sequence]]

\* a digest that leaves the outputs out (as SIGHASH_NONE does)
legacy_signature_hash_no_outputs(t, input_index, script_code, sighash_type) ==
    IF input_index >= Len(t.input)
    THEN [ok |-> FALSE, sighash |-> [none |-> TRUE]]
    ELSE [ok |-> TRUE,
          sighash |-> [sha256d |->
              [version |-> t.version,
               input |-> SighashInputs(t, input_index, script_code),
               output |-> << >>,
               lock_time |-> t.lock_time,
               sighash_type |-> sighash_type]]]

legacy_signature_hash(t, input_index, script_code, sighash_type) ==
    IF input_index >= Len(t.input)
    THEN [ok |-> FALSE, sighash |-> [none |-> TRUE]]
    ELSE [ok |-> TRUE,
          sighash |-> [sha256d |->
              [version |-> t.version,
               input |-> SighashInputs(t, input_index, script_code),
               output |-> t.output,
               lock_time |-> t.lock_time,
               sighash_type |-> sighash_type]]]

\* secp.sign_ecdsa + serialize_der, then the sighash type byte is appended
SigWithHashtype(secret_key, sighash) ==
    [der |-> [key |-> secret_key, msg |-> sighash], hashtype |-> SighashAll % 256]

\* PublicKey::from_secret_key(..).serialize()
PublicKeyOf(secret_key) == [pubkey_of |-> secret_key]

\* step 4 of sign_input: <Sig> <PubKey>
P2pkhScriptSig(secret_key, sighash) ==
    << Push(SigWithHashtype(secret_key, sighash)), Push(PublicKeyOf(secret_key)) >>

\* the signatures pushed in reverse of the order of the keys
MultisigScriptSigReversed(secret_keys, sighash, redeem_script) ==
    << Op("OP_PUSHBYTES_0") >>
    \o [j \in 1..Len(secret_keys) |->
           Push(SigWithHashtype(secret_keys[Len(secret_keys) + 1 - j], sighash))]
    \o << Push([script |-> redeem_script]) >>

\* sign_input_p2sh_multisig: OP_0 <sig1> <sig2> ... <redeem_script>
MultisigScriptSig(secret_keys, sighash, redeem_script) ==
    << Op("OP_PUSHBYTES_0") >>
    \o [j \in 1..Len(secret_keys) |-> Push(SigWithHashtype(secret_keys[j], sighash))]
    \o << Push([script |-> redeem_script]) >>

\* the script written into every input
SetScriptSigAll(ins, input_index, script_sig) ==
    [n \in 1..Len(ins) |-> [ins[n] EXCEPT !.script_sig = script_sig]]

\* self.inputs[input_index].script_sig = script_sig
SetScriptSig(ins, input_index, script_sig) ==
    [ins EXCEPT ![input_index + 1].script_sig = script_sig]

\* ------------------------------------------------- the two signing methods
\* What a call does to the input list, or that it panics: both methods return
\* (), so the only way out on an error is the panic of expect() or of the
\* slice index.

\* sign_input(&mut self, input_index, secret_key, previous_script_pubkey)
sign_input_result(ins, outs, input_index, secret_key, previous_script_pubkey) ==
    LET t == to_transaction_ref(ins, outs)
        h == legacy_signature_hash(t, input_index, previous_script_pubkey, SighashAll)
    IN  IF ~h.ok
        THEN [panic |-> TRUE, inputs |-> ins]          \* .expect("Sighash generation failed")
        ELSE [panic |-> FALSE,
              inputs |-> SetScriptSig(ins, input_index, P2pkhScriptSig(secret_key, h.sighash))]

\* sign_input_p2sh_multisig(&mut self, input_index, secret_keys, redeem_script)
sign_input_p2sh_multisig_result(ins, outs, input_index, secret_keys, redeem_script) ==
    LET t == to_transaction_ref(ins, outs)
        h == legacy_signature_hash(t, input_index, redeem_script, SighashAll)
    IN  IF Len(secret_keys) > 0 /\ ~h.ok
        THEN [panic |-> TRUE, inputs |-> ins]          \* .expect(..) inside the loop
        ELSE IF input_index >= Len(ins)
        THEN [panic |-> TRUE, inputs |-> ins]          \* self.inputs[input_index]
        ELSE [panic |-> FALSE,
              inputs |-> SetScriptSig(ins, input_index,
                             MultisigScriptSig(secret_keys, h.sighash, redeem_script))]

\* ------------------------------------------------------- the values drawn

GoodTxidA == [i \in 1..(2 * TxidBytes) |-> (i * 7) % 16]
GoodTxidB == [i \in 1..(2 * TxidBytes) |-> (i * 3 + 1) % 16]
\* one character short
ShortTxid == SubSeq(GoodTxidA, 1, 2 * TxidBytes - 1)
\* the right length, one character not a hex digit
NonHexTxid == [GoodTxidA EXCEPT ![5] = NonHex]

\* the (txid_hex, vout) pairs add_input is called with
InputArgs == {<<GoodTxidA, 0>>, <<GoodTxidB, 1>>, <<ShortTxid, 0>>, <<NonHexTxid, 1>>}

Hash20A == [i \in 1..20 |-> 17]
Hash20B == [i \in 1..20 |-> i]

\* the (address, amount_satoshis) pairs add_output is called with
OutputArgs == {<<from_pubkey_hash(Hash20A, "Testnet"), 1000>>,
               <<from_script_hash(Hash20B, "Mainnet"), 5000>>}

SecretKeys == {1, 2}

\* the locking script of the output being spent, and a redeem script
PrevScriptPubkey == OutputScript(from_pubkey_hash(Hash20A, "Testnet"))
RedeemScript ==
    << Op("OP_PUSHNUM_1"), Push([bytes |-> [i \in 1..33 |-> 2]]),
       Push([bytes |-> [i \in 1..33 |-> 3]]), Op("OP_PUSHNUM_2"), Op("OP_CHECKMULTISIG") >>

ScriptCodes == {PrevScriptPubkey, RedeemScript}

KeyLists == {<< >>, <<1, 2>>, <<2, 1>>}

\* -------------------------------------------------------------------- state

VARIABLES
    inputs,     \* TransactionBuilder.inputs
    outputs,    \* TransactionBuilder.outputs
    status,     \* "alive": the builder is owned and usable; "built": moved into
                \* build(); "panicked": a call panicked and the thread unwound
    txs,        \* the Transactions build() has returned, in order
    last,       \* the call that produced this state
    ncalls,     \* the calls on the builder that have returned
    hist_in,    \* arguments of the add_input calls that returned, in order
    hist_out,   \* arguments of the add_output calls that returned, in order
    signed_by   \* per input, the sign call that last wrote its script_sig

vars == <<inputs, outputs, status, txs, last, ncalls, hist_in, hist_out, signed_by>>

\* no sign call has targeted the input
NoSigner == [op |-> "none", keys |-> << >>, script_code |-> EmptyScript, at |-> <<0, 0>>]

\* a sign call, and the lengths of the two lists when it was made
Signer(op, keys, script_code) ==
    [op |-> op, keys |-> keys, script_code |-> script_code, at |-> <<Len(inputs), Len(outputs)>>]

Call(op, input_index, keys, script_code, result, rep) ==
    [op |-> op, input_index |-> input_index, keys |-> keys,
     script_code |-> script_code, result |-> result, rep |-> rep]

\* the call repeats the one before it: same method, same arguments, and that
\* one returned
Repeats(op, input_index, keys, script_code) ==
    /\ last.op = op
    /\ last.result = "ok"
    /\ last.input_index = input_index
    /\ last.keys = keys
    /\ last.script_code = script_code

\* TransactionBuilder::new()
Init ==
    /\ inputs = << >>
    /\ outputs = << >>
    /\ status = "alive"
    /\ txs = << >>
    /\ last = Call("new", 0, << >>, EmptyScript, "ok", FALSE)
    /\ ncalls = 0
    /\ hist_in = << >>
    /\ hist_out = << >>
    /\ signed_by = << >>

\* ------------------------------------------------------------------ actions
\* Every method takes the builder by reference or by value, so it can be
\* called only while the builder is owned: status = "alive".

\* add_input(&mut self, txid_hex, vout)
add_input(txid_hex, vout) ==
    LET parsed == TxidFromStr(txid_hex)
    IN  /\ status = "alive"
        /\ ncalls < MaxCalls
        /\ IF parsed.ok
           THEN /\ inputs' = VecPush(inputs, NewTxIn(parsed.txid, vout))
                /\ hist_in' = Append(hist_in, <<txid_hex, vout>>)
                /\ signed_by' = Append(signed_by, NoSigner)
                /\ status' = "alive"
                /\ ncalls' = ncalls + 1
                /\ last' = Call("add_input", 0, << >>, EmptyScript, "ok", FALSE)
           ELSE \* .expect("Invalid Hex Txid")
                /\ UNCHANGED <<inputs, hist_in, ncalls, signed_by>>
                /\ status' = "panicked"
                /\ last' = Call("add_input", 0, << >>, EmptyScript, "panic", FALSE)
        /\ UNCHANGED <<outputs, txs, hist_out>>

\* add_output(&mut self, address, amount_satoshis)
add_output(address, amount_satoshis) ==
    /\ status = "alive"
    /\ ncalls < MaxCalls
    /\ IF Len(address.payload) < 21
       THEN \* kind() indexes payload[0], hash160() slices payload[1..21]
            /\ status' = "panicked"
            /\ last' = Call("add_output", 0, << >>, EmptyScript, "panic", FALSE)
            /\ UNCHANGED <<outputs, hist_out, ncalls>>
       ELSE /\ ncalls' = ncalls + 1
            /\ outputs' = VecPush(outputs, NewTxOut(address, amount_satoshis))
            /\ hist_out' = Append(hist_out, <<address, amount_satoshis>>)
            /\ last' = Call("add_output", 0, << >>, EmptyScript, "ok", FALSE)
            /\ status' = "alive"
    /\ UNCHANGED <<inputs, txs, hist_in, signed_by>>

\* sign_input(&mut self, input_index, secret_key, previous_script_pubkey)
sign_input(input_index, secret_key, previous_script_pubkey) ==
    LET r == sign_input_result(inputs, outputs, input_index, secret_key, previous_script_pubkey)
    IN  /\ status = "alive"
        /\ ncalls < MaxCalls
        /\ inputs' = r.inputs
        /\ IF r.panic
           THEN /\ status' = "panicked"
                /\ ncalls' = ncalls
                /\ signed_by' = signed_by
                /\ last' = Call("sign_input", input_index, << >>, EmptyScript, "panic", FALSE)
           ELSE /\ status' = "alive"
                /\ ncalls' = ncalls + 1
                /\ signed_by' = [signed_by EXCEPT ![input_index + 1] =
                                    Signer("sign_input", <<secret_key>>, previous_script_pubkey)]
                /\ last' = Call("sign_input", input_index, <<secret_key>>, previous_script_pubkey, "ok",
                                Repeats("sign_input", input_index, <<secret_key>>, previous_script_pubkey))
        /\ UNCHANGED <<outputs, txs, hist_in, hist_out>>

\* sign_input_p2sh_multisig(&mut self, input_index, secret_keys, redeem_script)
sign_input_p2sh_multisig(input_index, secret_keys, redeem_script) ==
    LET r == sign_input_p2sh_multisig_result(inputs, outputs, input_index, secret_keys, redeem_script)
    IN  /\ status = "alive"
        /\ ncalls < MaxCalls
        /\ inputs' = r.inputs
        /\ IF r.panic
           THEN /\ status' = "panicked"
                /\ ncalls' = ncalls
                /\ signed_by' = signed_by
                /\ last' = Call("sign_input_p2sh_multisig", input_index, << >>, EmptyScript, "panic", FALSE)
           ELSE /\ status' = "alive"
                /\ ncalls' = ncalls + 1
                /\ signed_by' = [signed_by EXCEPT ![input_index + 1] =
                                    Signer("sign_input_p2sh_multisig", secret_keys, redeem_script)]
                /\ last' = Call("sign_input_p2sh_multisig", input_index, secret_keys, redeem_script, "ok",
                                Repeats("sign_input_p2sh_multisig", input_index, secret_keys, redeem_script))
        /\ UNCHANGED <<outputs, txs, hist_in, hist_out>>

\* build(&self): the builder is left as it was
AfterBuildByRef(ins, outs) == [status |-> "alive", inputs |-> ins, outputs |-> outs]

\* what is left of the builder once build(self) has taken it by value
AfterBuild(ins, outs) == [status |-> "built", inputs |-> << >>, outputs |-> << >>]

\* build(self)
build ==
    LET after == AfterBuild(inputs, outputs)
    IN  /\ status = "alive"
        /\ txs' = Append(txs, BuildTx(inputs, outputs))
        /\ status' = after.status
        /\ inputs' = after.inputs
        /\ outputs' = after.outputs
        /\ last' = Call("build", 0, << >>, EmptyScript, "ok", FALSE)
        /\ UNCHANGED <<ncalls, hist_in, hist_out, signed_by>>

\* builder.clone().build() (main.rs:581): the derived Clone copies both
\* lists, build() consumes the copy, the builder itself stays usable
clone_build ==
    /\ status = "alive"
    /\ ncalls < MaxCalls
    /\ ncalls' = ncalls + 1
    /\ txs' = Append(txs, BuildTx(inputs, outputs))
    /\ last' = Call("clone_build", 0, << >>, EmptyScript, "ok", FALSE)
    /\ UNCHANGED <<inputs, outputs, status, hist_in, hist_out, signed_by>>

Next ==
    \/ \E a \in InputArgs : add_input(a[1], a[2])
    \/ \E a \in OutputArgs : add_output(a[1], a[2])
    \/ \E i \in 0..(Len(inputs) + 1), k \in SecretKeys, sc \in ScriptCodes : sign_input(i, k, sc)
    \/ \E i \in 0..(Len(inputs) + 1), ks \in KeyLists : sign_input_p2sh_multisig(i, ks, RedeemScript)
    \/ build
    \/ clone_build

Spec == Init /\ [][Next]_vars

\* ------------------------------------------------- add_output over all of u64
\* The same builder with add_output called over the whole u64 range of
\* amounts.  An amount is its four 16-bit limbs, least significant first
\* (a u64 exceeds TLC's 32-bit integers).

U64(limb0, limb1, limb2, limb3) == <<limb0, limb1, limb2, limb3>>

\* u64::MAX
U64Max == U64(65535, 65535, 65535, 65535)
\* 50 DOGE = 5 000 000 000 koinu = 0x1_2A05_F200
FiftyDoge == U64(61952, 10757, 1, 0)

\* the (address, amount_satoshis) pairs add_output is called with
OutputArgsU64 ==
    {<<from_pubkey_hash(Hash20A, "Testnet"), U64(0, 0, 0, 0)>>,
     <<from_pubkey_hash(Hash20B, "Mainnet"), FiftyDoge>>,
     <<from_pubkey_hash(Hash20A, "Testnet"), U64Max>>,
     <<from_script_hash(Hash20B, "Testnet"), U64Max>>,
     <<from_script_hash(Hash20A, "Mainnet"), U64(0, 0, 1, 0)>>,
     <<from_script_hash(Hash20B, "Mainnet"), U64(1, 0, 0, 0)>>}

\* the builder after k add_input calls, none signed
InitAddOutput ==
    \E k \in 0..2 :
        LET args == SubSeq(<< <<GoodTxidA, 0>>, <<GoodTxidB, 1>> >>, 1, k)
        IN  /\ inputs = [n \in 1..k |-> NewTxIn(TxidFromStr(args[n][1]).txid, args[n][2])]
            /\ hist_in = args
            /\ signed_by = [n \in 1..k |-> NoSigner]
            /\ ncalls = k
            /\ last = IF k = 0 THEN Call("new", 0, << >>, EmptyScript, "ok", FALSE)
                      ELSE Call("add_input", 0, << >>, EmptyScript, "ok", FALSE)
            /\ outputs = << >>
            /\ hist_out = << >>
            /\ status = "alive"
            /\ txs = << >>

NextAddOutput == \E a \in OutputArgsU64 : add_output(a[1], a[2])

SpecAddOutput == InitAddOutput /\ [][NextAddOutput]_vars

\* ----------------------------------------------------- multisig redeem script

\* the opcodes OP_PUSHNUM_1 .. OP_PUSHNUM_16, by number
PushNumOpcodes ==
    <<"OP_PUSHNUM_1", "OP_PUSHNUM_2", "OP_PUSHNUM_3", "OP_PUSHNUM_4",
      "OP_PUSHNUM_5", "OP_PUSHNUM_6", "OP_PUSHNUM_7", "OP_PUSHNUM_8",
      "OP_PUSHNUM_9", "OP_PUSHNUM_10", "OP_PUSHNUM_11", "OP_PUSHNUM_12",
      "OP_PUSHNUM_13", "OP_PUSHNUM_14", "OP_PUSHNUM_15", "OP_PUSHNUM_16">>

\* op_n(n: u8)
op_n(n) ==
    IF n = 0 THEN Op("OP_PUSHBYTES_0")
    ELSE IF n \in 1..16 THEN Op(PushNumOpcodes[n])
    ELSE Op("OP_RETURN")

\* usize as u8
AsU8(x) == x % 256

NoScriptError == [kind |-> "none", m |-> 0, n |-> 0, len |-> 0]

\* multisig_redeem_script(m: u8, pubkeys: &[Vec<u8>]) -> Result<ScriptBuf, ScriptError>
multisig_redeem_script(m, pubkeys) ==
    LET n == AsU8(Len(pubkeys))
        wrong == { i \in 1..Len(pubkeys) : Len(pubkeys[i]) # 33 }
        first == CHOOSE i \in wrong : \A k \in wrong : i <= k
    IN  IF m = 0 \/ n = 0 \/ m > n \/ n > 16
        THEN [ok |-> FALSE, script |-> EmptyScript,
              err |-> [kind |-> "InvalidThreshold", m |-> m, n |-> n, len |-> 0]]
        ELSE IF wrong # {}
        THEN [ok |-> FALSE, script |-> EmptyScript,
              err |-> [kind |-> "InvalidPubkeyLength", m |-> 0, n |-> 0,
                       len |-> Len(pubkeys[first])]]
        ELSE [ok |-> TRUE, err |-> NoScriptError,
              script |-> << op_n(m) >>
                         \o [i \in 1..Len(pubkeys) |-> Push([bytes |-> pubkeys[i]])]
                         \o << op_n(n), Op("OP_CHECKMULTISIG") >>]

\* the thresholds and the numbers of pubkeys drawn
Thresholds == {0, 1, 2, 3, 16, 17, 255}
PubkeyCounts == (0..3) \cup (15..17) \cup (255..258) \cup (271..273)

\* a compressed public key: 02 or 03, then 32 bytes
Pubkey33(i) == [j \in 1..33 |-> IF j = 1 THEN 2 + (i % 2) ELSE (i + j) % 256]

\* where a list holds a pubkey of another length: nowhere (0), first (1) or
\* last (2), and that length
Defects == {[at |-> 0, len |-> 33]} \cup [at : {1, 2}, len : {32, 65}]

PubkeyList(count, defect) ==
    [i \in 1..count |->
        IF (defect.at = 1 /\ i = 1) \/ (defect.at = 2 /\ i = count)
        THEN [j \in 1..defect.len |-> 4]
        ELSE Pubkey33(i)]

\* the arguments are chosen
InitScript ==
    /\ \E m \in Thresholds, count \in PubkeyCounts, defect \in Defects :
          last = [op |-> "args", m |-> m, pubkeys |-> PubkeyList(count, defect)]
    /\ inputs = << >> /\ outputs = << >> /\ status = "alive" /\ txs = << >>
    /\ ncalls = 0 /\ hist_in = << >> /\ hist_out = << >> /\ signed_by = << >>

\* the call is made
call_multisig_redeem_script ==
    /\ last.op = "args"
    /\ last' = [op |-> "multisig_redeem_script", m |-> last.m, pubkeys |-> last.pubkeys,
                result |-> multisig_redeem_script(last.m, last.pubkeys)]
    /\ UNCHANGED <<inputs, outputs, status, txs, ncalls, hist_in, hist_out, signed_by>>

NextScript == call_multisig_redeem_script

SpecScript == InitScript /\ [][NextScript]_vars

\* ------------------------------------------------------- parsing a network
\* A &str is a sequence of characters; a character is a one-character
\* string, or the name of its code point where it is not ASCII.

\* the upper-case letter of each lower-case letter the names are made of
AsciiUpper == [t |-> "T", e |-> "E", s |-> "S", n |-> "N", m |-> "M", a |-> "A", i |-> "I"]

\* char::to_lowercase: an upper-case ASCII letter to its lower-case letter,
\* KELVIN SIGN to k, LATIN CAPITAL LETTER I WITH DOT ABOVE to i followed by
\* COMBINING DOT ABOVE, every other character of the model to itself
CharToLowercase(c) ==
    IF \E l \in DOMAIN AsciiUpper : AsciiUpper[l] = c
    THEN << CHOOSE l \in DOMAIN AsciiUpper : AsciiUpper[l] = c >>
    ELSE IF c = "U+212A" THEN <<"k">>
    ELSE IF c = "U+0130" THEN <<"i", "U+0307">>
    ELSE <<c>>

RECURSIVE to_lowercase(_)
\* str::to_lowercase
to_lowercase(str) ==
    IF str = << >> THEN << >>
    ELSE CharToLowercase(Head(str)) \o to_lowercase(Tail(str))

StrTestnet == <<"t", "e", "s", "t", "n", "e", "t">>
StrTest == <<"t", "e", "s", "t">>
StrMainnet == <<"m", "a", "i", "n", "n", "e", "t">>
StrMain == <<"m", "a", "i", "n">>

\* <Network as FromStr>::from_str without the lower-casing
from_str_as_written(str) ==
    IF str \in {StrTestnet, StrTest} THEN [ok |-> TRUE, network |-> "Testnet", err |-> "none"]
    ELSE IF str \in {StrMainnet, StrMain} THEN [ok |-> TRUE, network |-> "Mainnet", err |-> "none"]
    ELSE [ok |-> FALSE, network |-> "none", err |-> "Unknown network"]

\* <Network as FromStr>::from_str
from_str(str) ==
    LET lowered == to_lowercase(str)
    IN  IF lowered \in {StrTestnet, StrTest}
        THEN [ok |-> TRUE, network |-> "Testnet", err |-> "none"]
        ELSE IF lowered \in {StrMainnet, StrMain}
        THEN [ok |-> TRUE, network |-> "Mainnet", err |-> "none"]
        ELSE [ok |-> FALSE, network |-> "none", err |-> "Unknown network"]

RECURSIVE CaseVariants(_)
\* a name in every mix of upper and lower case
CaseVariants(word) ==
    IF word = << >> THEN {<< >>}
    ELSE { <<c>> \o rest : c \in {Head(word), AsciiUpper[Head(word)]},
                           rest \in CaseVariants(Tail(word)) }

\* strings that are no network name
OtherNames ==
    { << >>,
      <<" ">> \o StrTestnet, StrTestnet \o <<" ">>, <<" ">> \o StrMain \o <<" ">>,
      StrMainnet \o <<"\n">>, <<"\t">> \o StrTest,
      <<"i", "n", "v", "a", "l", "i", "d">>,
      <<"t", "e", "s">>, <<"m", "a", "i", "n", "n">>, StrTestnet \o <<"s">>,
      <<"t", "e", "s", "t", " ", "n", "e", "t">>, <<"t", "e", "s", "t", "-", "n", "e", "t">>,
      <<"r", "e", "g", "t", "e", "s", "t">>, <<"1">>,
      <<"m", "a", "U+0130", "n">>, <<"M", "A", "U+0130", "N", "N", "E", "T">>,
      <<"m", "a", "i", "U+0307", "n">>, <<"U+212A">> }

NetworkNames ==
    CaseVariants(StrTestnet) \cup CaseVariants(StrTest) \cup CaseVariants(StrMainnet)
        \cup CaseVariants(StrMain) \cup OtherNames

\* the string is chosen
InitNetwork ==
    /\ \E str \in NetworkNames : last = [op |-> "args", s |-> str]
    /\ inputs = << >> /\ outputs = << >> /\ status = "alive" /\ txs = << >>
    /\ ncalls = 0 /\ hist_in = << >> /\ hist_out = << >> /\ signed_by = << >>

\* the call is made
call_from_str ==
    /\ last.op = "args"
    /\ last' = [op |-> "from_str", s |-> last.s, result |-> from_str(last.s)]
    /\ UNCHANGED <<inputs, outputs, status, txs, ncalls, hist_in, hist_out, signed_by>>

NextNetwork == call_from_str

SpecNetwork == InitNetwork /\ [][NextNetwork]_vars

\* ------------------------------------------------------------- Base58Check
\* bitcoin::base58 as the address codec uses it.  A string is a sequence of
\* one-character strings, a byte string a sequence of 0..255.

\* the Base58 alphabet, by digit value + 1
Base58Alphabet ==
    <<"1", "2", "3", "4", "5", "6", "7", "8", "9",
      "A", "B", "C", "D", "E", "F", "G", "H", "J", "K", "L", "M", "N", "P", "Q",
      "R", "S", "T", "U", "V", "W", "X", "Y", "Z",
      "a", "b", "c", "d", "e", "f", "g", "h", "i", "j", "k", "m", "n", "o", "p",
      "q", "r", "s", "t", "u", "v", "w", "x", "y", "z">>

Base58Chars == { Base58Alphabet[d] : d \in 1..58 }

\* the digit of the character in the alphabet that has the lower-case
\* letters before the upper-case ones
Base58DigitLowerFirst(c) ==
    LET d == (CHOOSE k \in 1..58 : Base58Alphabet[k] = c) - 1
    IN  IF d <= 8 THEN d ELSE IF d <= 32 THEN d + 25 ELSE d - 24

Base58Digit(c) == (CHOOSE d \in 1..58 : Base58Alphabet[d] = c) - 1

\* the number of zero digits a digit string starts with
LeadingZeros(digits) ==
    IF \A k \in 1..Len(digits) : digits[k] = 0 THEN Len(digits)
    ELSE (CHOOSE k \in 1..Len(digits) :
             digits[k] # 0 /\ \A l \in 1..(k - 1) : digits[l] = 0) - 1

StripZeros(digits) == SubSeq(digits, LeadingZeros(digits) + 1, Len(digits))

RECURSIVE LongDivide(_, _, _, _, _, _)
\* schoolbook division of a number, given by its digits in base `base`, most
\* significant first, by `by`: quotient digits q and remainder r
LongDivide(digits, base, by, k, q, r) ==
    IF k > Len(digits) THEN [q |-> q, r |-> r]
    ELSE LongDivide(digits, base, by, k + 1,
                    Append(q, (r * base + digits[k]) \div by), (r * base + digits[k]) % by)

RECURSIVE ToBase(_, _, _)
\* the digits in base `to` of the number whose digits in base `base` are
\* given, without leading zeros
ToBase(digits, base, to) ==
    IF \A k \in 1..Len(digits) : digits[k] = 0 THEN << >>
    ELSE LET qr == LongDivide(digits, base, to, 1, << >>, 0)
         IN  Append(ToBase(StripZeros(qr.q), base, to), qr.r)

\* base58::encode: one "1" per leading zero byte, then the digits of the rest
Base58Encode(data) ==
    LET digits == ToBase(StripZeros(data), 256, 58)
    IN  [k \in 1..LeadingZeros(data) |-> "1"]
        \o [k \in 1..Len(digits) |-> Base58Alphabet[digits[k] + 1]]

\* base58::decode: a character outside the alphabet is an error; one zero
\* byte per leading "1", then the bytes of the rest
Base58Decode(text) ==
    IF \E k \in 1..Len(text) : text[k] \notin Base58Chars
    THEN [ok |-> FALSE, data |-> << >>]
    ELSE LET digits == [k \in 1..Len(text) |-> Base58Digit(text[k])]
         IN  [ok |-> TRUE,
              data |-> [k \in 1..LeadingZeros(digits) |-> 0]
                       \o ToBase(StripZeros(digits), 58, 256)]

RECURSIVE RangeSum(_, _, _, _)
\* a sum over bytes lo..hi that weighs each byte by its place, by halves
RangeSum(data, w, lo, hi) ==
    IF lo > hi THEN 0
    ELSE IF lo = hi THEN ((lo + w) * (data[lo] + w) * (1 + (lo % 31))) % 65521
    ELSE (RangeSum(data, w, lo, (lo + hi) \div 2)
            + RangeSum(data, w, (lo + hi) \div 2 + 1, hi)) % 65521

WeightedSum(data, w, k) == RangeSum(data, w, k, Len(data))

\* The first four bytes of SHA256(SHA256(data)).  The hash itself is not
\* computed: the checksum is a fixed function of the bytes, four bytes long.
Checksum4(data) == [w \in 1..4 |-> (WeightedSum(data, w, 1) + Len(data)) % 256]

\* base58::encode_check
encode_check(data) == Base58Encode(data \o Checksum4(data))

\* decode_check that does not compare the checksum
decode_check_unverified(text) ==
    LET decoded == Base58Decode(text)
    IN  IF ~decoded.ok THEN [ok |-> FALSE, data |-> << >>, err |-> "InvalidCharacter"]
        ELSE IF Len(decoded.data) < 4 THEN [ok |-> FALSE, data |-> << >>, err |-> "TooShort"]
        ELSE [ok |-> TRUE, data |-> SubSeq(decoded.data, 1, Len(decoded.data) - 4),
              err |-> "none"]

\* base58::decode_check: decode, at least four bytes, the last four the
\* checksum of the ones before
decode_check(text) ==
    LET decoded == Base58Decode(text)
        body == SubSeq(decoded.data, 1, Len(decoded.data) - 4)
        check == SubSeq(decoded.data, Len(decoded.data) - 3, Len(decoded.data))
    IN  IF ~decoded.ok THEN [ok |-> FALSE, data |-> << >>, err |-> "InvalidCharacter"]
        ELSE IF Len(decoded.data) < 4 THEN [ok |-> FALSE, data |-> << >>, err |-> "TooShort"]
        ELSE IF check # Checksum4(body)
        THEN [ok |-> FALSE, data |-> << >>, err |-> "IncorrectChecksum"]
        ELSE [ok |-> TRUE, data |-> body, err |-> "none"]

\* ------------------------------------------------------------ address codec

\* RIPEMD160(SHA256(data)).  The hash itself is not computed: it is a fixed
\* function of the bytes, twenty bytes long.
Hash160Bytes(data) == [w \in 1..20 |-> (WeightedSum(data, w + 4, 1) + w) % 256]

\* DogeAddress::from_pubkey(public_key, network), public_key as its 33 bytes
from_pubkey(pk_bytes, network) ==
    [payload |-> <<p2pkh_version_byte(network)>> \o Hash160Bytes(pk_bytes), network |-> network]

\* the string made from the network's P2PKH byte and the hash, not from the
\* payload as it is
to_string_as_p2pkh(address) ==
    encode_check(<<p2pkh_version_byte(address.network)>> \o hash160(address))

\* DogeAddress::to_string
to_string(address) == encode_check(address.payload)

NoAddress == [payload |-> << >>, network |-> "none"]

AddressOk(address) ==
    [ok |-> TRUE, address |-> address,
     err |-> [kind |-> "none", cause |-> "none", len |-> 0, version |-> 0]]

AddressErr(kind_, cause, len, version) ==
    [ok |-> FALSE, address |-> NoAddress,
     err |-> [kind |-> kind_, cause |-> cause, len |-> len, version |-> version]]

\* from_base58 that takes every known version byte for a Testnet one
from_base58_testnet_always(text) ==
    LET checked == decode_check(text)
        decoded == checked.data
        version == decoded[1]
    IN  IF ~checked.ok THEN AddressErr("InvalidBase58Check", checked.err, 0, 0)
        ELSE IF Len(decoded) # 21 THEN AddressErr("InvalidLength", "none", Len(decoded), 0)
        ELSE IF \E nw \in Networks :
                   version = p2pkh_version_byte(nw) \/ version = p2sh_version_byte(nw)
        THEN AddressOk([payload |-> decoded, network |-> "Testnet"])
        ELSE AddressErr("UnknownVersionByte", "none", 0, version)

\* from_base58 that compares with Mainnet's P2PKH byte only
from_base58_mainnet_p2pkh_only(text) ==
    LET checked == decode_check(text)
        decoded == checked.data
        version == decoded[1]
    IN  IF ~checked.ok THEN AddressErr("InvalidBase58Check", checked.err, 0, 0)
        ELSE IF Len(decoded) # 21 THEN AddressErr("InvalidLength", "none", Len(decoded), 0)
        ELSE IF version = p2pkh_version_byte("Testnet") \/ version = p2sh_version_byte("Testnet")
        THEN AddressOk([payload |-> decoded, network |-> "Testnet"])
        ELSE IF version = p2pkh_version_byte("Mainnet")
        THEN AddressOk([payload |-> decoded, network |-> "Mainnet"])
        ELSE AddressErr("UnknownVersionByte", "none", 0, version)

\* DogeAddress::from_base58
from_base58(text) ==
    LET checked == decode_check(text)
        decoded == checked.data
        version == decoded[1]
    IN  IF ~checked.ok THEN AddressErr("InvalidBase58Check", checked.err, 0, 0)
        ELSE IF Len(decoded) # 21 THEN AddressErr("InvalidLength", "none", Len(decoded), 0)
        ELSE IF version = p2pkh_version_byte("Testnet") \/ version = p2sh_version_byte("Testnet")
        THEN AddressOk([payload |-> decoded, network |-> "Testnet"])
        ELSE IF version = p2pkh_version_byte("Mainnet") \/ version = p2sh_version_byte("Mainnet")
        THEN AddressOk([payload |-> decoded, network |-> "Mainnet"])
        ELSE AddressErr("UnknownVersionByte", "none", 0, version)

\* the byte with bit `bit` (0 the least significant) flipped
FlipBit(byte, bit) ==
    IF (byte \div (2 ^ bit)) % 2 = 1 THEN byte - 2 ^ bit ELSE byte + 2 ^ bit

\* The ways a string is derived from the string of an address:
\*   flip         bit b of checksum byte a flipped
\*   cut          the payload cut to its first a bytes, the checksum kept
\*   cut_recheck  the payload cut to its first a bytes, the checksum recomputed
\*   version      the version byte replaced by a, the checksum recomputed
\*   badchar      character a replaced by "0", which Base58 does not have
Derivations ==
    [how : {"flip"}, a : {1, 4}, b : {0, 7}]
        \cup [how : {"cut", "cut_recheck"}, a : {0, 1, 20}, b : {0}]
        \cup [how : {"version"}, a : {0, 5, 111, 158, 255, 113, 196, 30, 22}, b : {0}]
        \cup [how : {"badchar"}, a : {1, 34}, b : {0}]

NotDerived == [how |-> "none", a |-> 0, b |-> 0]

Derive(address, d) ==
    LET payload == address.payload
        check == Checksum4(payload)
    IN  CASE d.how = "flip" ->
               Base58Encode(payload \o [check EXCEPT ![d.a] = FlipBit(check[d.a], d.b)])
          [] d.how = "cut" -> Base58Encode(SubSeq(payload, 1, d.a) \o check)
          [] d.how = "cut_recheck" -> encode_check(SubSeq(payload, 1, d.a))
          [] d.how = "version" -> encode_check(<<d.a>> \o Tail(payload))
          [] d.how = "badchar" -> [to_string(address) EXCEPT ![d.a] = "0"]

\* the hashes and public keys the constructors are called with
Hash20Zero == [i \in 1..20 |-> 0]
Hash20Max == [i \in 1..20 |-> 255]
Hashes20 == {Hash20A, Hash20B, Hash20Zero, Hash20Max}
PublicKeys == {Pubkey33(1), Pubkey33(2)}

Constructors == {"from_pubkey", "from_pubkey_hash", "from_script_hash"}

\* the constructor and its arguments are chosen
InitAddress ==
    /\ \/ \E h \in Hashes20, nw \in Networks, c \in {"from_pubkey_hash", "from_script_hash"} :
             last = [op |-> "args", ctor |-> c, bytes |-> h, network |-> nw]
       \/ \E pk \in PublicKeys, nw \in Networks :
             last = [op |-> "args", ctor |-> "from_pubkey", bytes |-> pk, network |-> nw]
    /\ inputs = << >> /\ outputs = << >> /\ status = "alive" /\ txs = << >>
    /\ ncalls = 0 /\ hist_in = << >> /\ hist_out = << >> /\ signed_by = << >>

\* the constructor is called
construct ==
    /\ last.op = "args"
    /\ last' = [op |-> "constructed", ctor |-> last.ctor,
                address |-> CASE last.ctor = "from_pubkey" -> from_pubkey(last.bytes, last.network)
                              [] last.ctor = "from_pubkey_hash" ->
                                    from_pubkey_hash(last.bytes, last.network)
                              [] last.ctor = "from_script_hash" ->
                                    from_script_hash(last.bytes, last.network)]
    /\ UNCHANGED <<inputs, outputs, status, txs, ncalls, hist_in, hist_out, signed_by>>

\* address.to_string()
call_to_string ==
    /\ last.op = "constructed"
    /\ last' = [op |-> "to_string", ctor |-> last.ctor, address |-> last.address,
                text |-> to_string(last.address), derived |-> NotDerived]
    /\ UNCHANGED <<inputs, outputs, status, txs, ncalls, hist_in, hist_out, signed_by>>

\* somebody edits the string
derive(d) ==
    /\ last.op = "to_string"
    /\ last.derived = NotDerived
    /\ last' = [last EXCEPT !.text = Derive(last.address, d), !.derived = d]
    /\ UNCHANGED <<inputs, outputs, status, txs, ncalls, hist_in, hist_out, signed_by>>

\* DogeAddress::from_base58(text)
call_from_base58 ==
    /\ last.op = "to_string"
    /\ last' = [op |-> "from_base58", ctor |-> last.ctor, address |-> last.address,
                text |-> last.text, derived |-> last.derived,
                result |-> from_base58(last.text)]
    /\ UNCHANGED <<inputs, outputs, status, txs, ncalls, hist_in, hist_out, signed_by>>

NextAddress ==
    \/ construct
    \/ call_to_string
    \/ \E d \in Derivations : derive(d)
    \/ call_from_base58

SpecAddress == InitAddress /\ [][NextAddress]_vars

\* ------------------------------------------------- every version byte parsed
\* from_base58 called with the strings of checksum-valid 21-byte payloads
\* with each of the 256 version bytes.

\* the string of a payload with the version byte chosen is at hand
InitVersionByte ==
    /\ \E version \in 0..255, h \in {Hash20B, Hash20Zero} :
          last = [op |-> "to_string", ctor |-> "none",
                  address |-> [payload |-> <<version>> \o h, network |-> "none"],
                  text |-> encode_check(<<version>> \o h),
                  derived |-> [how |-> "version", a |-> version, b |-> 0]]
    /\ inputs = << >> /\ outputs = << >> /\ status = "alive" /\ txs = << >>
    /\ ncalls = 0 /\ hist_in = << >> /\ hist_out = << >> /\ signed_by = << >>

NextVersionByte == call_from_base58

SpecVersionByte == InitVersionByte /\ [][NextVersionByte]_vars

\* ------------------------------------------------------- the sign command
\* cmd_sign from the point where the addresses are parsed and the previous
\* output is resolved: the arithmetic on input value, amount and fee, then
\* the builder calls.  u64 values are four 16-bit limbs (see U64).

\* x + y modulo 2^64, and whether the sum left the u64 range
U64Add(x, y) ==
    LET s1 == x[1] + y[1]
        s2 == x[2] + y[2] + s1 \div 65536
        s3 == x[3] + y[3] + s2 \div 65536
        s4 == x[4] + y[4] + s3 \div 65536
    IN  [value |-> <<s1 % 65536, s2 % 65536, s3 % 65536, s4 % 65536>>,
         overflow |-> s4 >= 65536]

\* x - y modulo 2^64, and whether the difference left the u64 range
U64Sub(x, y) ==
    LET d1 == x[1] - y[1]
        d2 == x[2] - y[2] - (IF d1 < 0 THEN 1 ELSE 0)
        d3 == x[3] - y[3] - (IF d2 < 0 THEN 1 ELSE 0)
        d4 == x[4] - y[4] - (IF d3 < 0 THEN 1 ELSE 0)
    IN  [value |-> <<d1 % 65536, d2 % 65536, d3 % 65536, d4 % 65536>>,
         overflow |-> d4 < 0]

\* x < y
U64Less(x, y) == U64Sub(x, y).overflow

\* u64::saturating_add
saturating_add(x, y) == IF U64Add(x, y).overflow THEN U64Max ELSE U64Add(x, y).value

U64Zero == U64(0, 0, 0, 0)

\* the values of input value, amount and fee drawn
U64Values ==
    {U64Zero, U64(1, 0, 0, 0), U64(1000, 0, 0, 0), FiftyDoge, U64(0, 0, 0, 32768),
     U64(65534, 65535, 65535, 65535), U64Max}

\* the addresses, previous output and key of the command line
SignTo == from_script_hash(Hash20B, "Testnet")
SignChange == from_pubkey_hash(Hash20A, "Testnet")

\* The values are chosen, and the build: with overflow checks (the dev
\* profile) an arithmetic overflow panics, without them (the release
\* profile) the result wraps.
InitSign ==
    /\ \E input_value \in U64Values, amount \in U64Values, fee \in U64Values,
          overflow_checks \in BOOLEAN :
          last = [op |-> "args", input_value |-> input_value, amount |-> amount,
                  fee |-> fee, overflow_checks |-> overflow_checks]
    /\ inputs = << >> /\ outputs = << >> /\ status = "alive" /\ txs = << >>
    /\ ncalls = 0 /\ hist_in = << >> /\ hist_out = << >> /\ signed_by = << >>

SignOutcome(outcome, change_value) ==
    [op |-> "cmd_sign", input_value |-> last.input_value, amount |-> last.amount,
     fee |-> last.fee, overflow_checks |-> last.overflow_checks,
     outcome |-> outcome, change_value |-> change_value]

\* cmd_sign, main.rs:341-373
cmd_sign ==
    LET input_value == last.input_value
        amount == last.amount
        fee == last.fee
        after_amount == U64Sub(input_value, amount)
        change == U64Sub(after_amount.value, fee)
        change_value == change.value
        outs == IF change_value # U64Zero
                THEN << NewTxOut(SignTo, amount), NewTxOut(SignChange, change_value) >>
                ELSE << NewTxOut(SignTo, amount) >>
        signed == sign_input_result(<< NewTxIn(TxidFromStr(GoodTxidA).txid, 0) >>, outs,
                                    0, 1, PrevScriptPubkey)
    IN  /\ last.op = "args"
        /\ IF U64Less(input_value, saturating_add(amount, fee))
           THEN \* the message is formatted with amount + fee
                IF U64Add(amount, fee).overflow /\ last.overflow_checks
                THEN /\ status' = "panicked"
                     /\ last' = SignOutcome("panic", U64Zero)
                     /\ UNCHANGED <<inputs, outputs, txs, ncalls, hist_in, hist_out, signed_by>>
                ELSE /\ last' = SignOutcome("insufficient", U64Zero)
                     /\ UNCHANGED <<inputs, outputs, status, txs, ncalls, hist_in, hist_out,
                                    signed_by>>
           ELSE IF (after_amount.overflow \/ change.overflow) /\ last.overflow_checks
           THEN \* input_value - amount - fee
                /\ status' = "panicked"
                /\ last' = SignOutcome("panic", U64Zero)
                /\ UNCHANGED <<inputs, outputs, txs, ncalls, hist_in, hist_out, signed_by>>
           ELSE /\ inputs' = signed.inputs
                /\ outputs' = outs
                /\ txs' = << BuildTx(signed.inputs, outs) >>
                /\ status' = "built"
                /\ ncalls' = Len(outs) + 2
                /\ hist_in' = << <<GoodTxidA, 0>> >>
                /\ hist_out' = IF Len(outs) = 2
                               THEN << <<SignTo, amount>>, <<SignChange, change_value>> >>
                               ELSE << <<SignTo, amount>> >>
                /\ signed_by' = << [op |-> "sign_input", keys |-> <<1>>,
                                    script_code |-> PrevScriptPubkey,
                                    at |-> <<1, Len(outs)>>] >>
                /\ last' = SignOutcome("emitted", change_value)

NextSign == cmd_sign

SpecSign == InitSign /\ [][NextSign]_vars

\* ------------------------------------------- addresses with fields set directly
\* DogeAddress { payload, network } has public fields: an address can be
\* made with any bytes and any network, without a constructor.

\* the payloads drawn: each first byte with 1, 20, 21 and 22 bytes, and none
DirectPayloads ==
    { << >> } \cup
    { <<version>> \o [i \in 1..more |-> i] :
        version \in {113, 196, 30, 22, 0, 5, 255}, more \in {0, 19, 20, 21} }

\* the address is written down
InitDirect ==
    /\ \E payload \in DirectPayloads, nw \in Networks :
          last = [op |-> "args", address |-> [payload |-> payload, network |-> nw]]
    /\ inputs = << >> /\ outputs = << >> /\ status = "alive" /\ txs = << >>
    /\ ncalls = 0 /\ hist_in = << >> /\ hist_out = << >> /\ signed_by = << >>

\* address.kind(): self.payload[0] panics on an empty payload
call_kind ==
    /\ last.op = "args"
    /\ IF Len(last.address.payload) = 0
       THEN /\ status' = "panicked"
            /\ last' = [op |-> "kind", address |-> last.address, result |-> "panic"]
       ELSE /\ status' = status
            /\ last' = [op |-> "kind", address |-> last.address, result |-> kind(last.address)]
    /\ UNCHANGED <<inputs, outputs, txs, ncalls, hist_in, hist_out, signed_by>>

NextDirect ==
    \/ call_kind
    \/ last.op = "args" /\ add_output(last.address, U64(1000, 0, 0, 0))

SpecDirect == InitDirect /\ [][NextDirect]_vars

\* ------------------------------------------------------ paying to a script
\* The two ways to the locking script of a redeem script: p2sh_script_pubkey,
\* and add_output with the address of the script's hash.

\* the byte of an opcode
OpcodeByte(name) ==
    IF \E k \in 1..16 : PushNumOpcodes[k] = name
    THEN 80 + (CHOOSE k \in 1..16 : PushNumOpcodes[k] = name)
    ELSE [OP_PUSHBYTES_0 |-> 0, OP_RETURN |-> 106, OP_DUP |-> 118, OP_EQUAL |-> 135,
          OP_EQUALVERIFY |-> 136, OP_HASH160 |-> 169, OP_CHECKSIG |-> 172,
          OP_CHECKMULTISIG |-> 174][name]

RECURSIVE as_bytes(_)
\* ScriptBuf::as_bytes: an opcode is its byte, a push of up to 75 bytes is
\* its length and its bytes
as_bytes(script) ==
    IF script = << >> THEN << >>
    ELSE (IF Head(script).op = "PUSHBYTES"
          THEN <<Len(Head(script).data.bytes)>> \o Head(script).data.bytes
          ELSE <<OpcodeByte(Head(script).op)>>)
         \o as_bytes(Tail(script))

\* redeem_script_hash160(redeem_script)
redeem_script_hash160(redeem_script) == Hash160Bytes(as_bytes(redeem_script))

\* p2sh_script_pubkey(redeem_script)
p2sh_script_pubkey(redeem_script) ==
    << Op("OP_HASH160"), Push([bytes |-> Hash160Bytes(as_bytes(redeem_script))]),
       Op("OP_EQUAL") >>

\* the redeem scripts drawn: m of n for n up to 4, over three runs of keys
RedeemScripts ==
    { multisig_redeem_script(m, [i \in 1..n |-> Pubkey33(i + shift)]).script :
        m \in 1..4, n \in 1..4, shift \in 0..2 } \ { EmptyScript }

\* the redeem script and the network are chosen
InitPayToScript ==
    /\ \E redeem \in RedeemScripts, nw \in Networks :
          last = [op |-> "args", redeem |-> redeem, network |-> nw,
                  script |-> EmptyScript, hash |-> << >>]
    /\ inputs = << >> /\ outputs = << >> /\ status = "alive" /\ txs = << >>
    /\ ncalls = 0 /\ hist_in = << >> /\ hist_out = << >> /\ signed_by = << >>

\* p2sh_script_pubkey(&redeem)
call_p2sh_script_pubkey ==
    /\ last.op = "args"
    /\ last' = [last EXCEPT !.op = "p2sh_script_pubkey",
                            !.script = p2sh_script_pubkey(last.redeem)]
    /\ UNCHANGED <<inputs, outputs, status, txs, ncalls, hist_in, hist_out, signed_by>>

\* builder.add_output(&DogeAddress::from_script_hash(&redeem_script_hash160(&redeem),
\* network), 1000): the address has 21 bytes, so add_output returns
pay_to_script_hash ==
    LET hash == redeem_script_hash160(last.redeem)
        address == from_script_hash(hash, last.network)
    IN  /\ last.op = "p2sh_script_pubkey"
        /\ status = "alive"
        /\ ncalls' = ncalls + 1
        /\ outputs' = VecPush(outputs, NewTxOut(address, U64(1000, 0, 0, 0)))
        /\ hist_out' = Append(hist_out, <<address, U64(1000, 0, 0, 0)>>)
        /\ last' = [last EXCEPT !.op = "add_output", !.hash = hash]
        /\ UNCHANGED <<inputs, status, txs, hist_in, signed_by>>

NextPayToScript == call_p2sh_script_pubkey \/ pay_to_script_hash

SpecPayToScript == InitPayToScript /\ [][NextPayToScript]_vars

\* =================================================================== claims

IsSign(c) == c.op \in {"sign_input", "sign_input_p2sh_multisig"}

IsAdd(c) == c.op \in {"add_input", "add_output"}

\* some input holds an unlocking script
AnySigned(ins) == \E n \in 1..Len(ins) : ins[n].script_sig # EmptyScript

\* C1: a sign call whose input_index is not below the number of inputs comes
\* back to the caller with a typed error; it does not panic.
C1_OutOfRangeIndexIsTypedError ==
    (IsSign(last) /\ last.input_index >= Len(inputs))
        => (last.result = "err" /\ status = "alive")

\* C2: a builder call that fails after inputs, outputs and signatures have
\* accumulated leaves the inputs, the outputs and the stored unlocking scripts
\* as they were, and the builder usable.
C2_FailedCallLeavesBuilderUsable ==
    [][ (last'.result # "ok" /\ AnySigned(inputs))
            => (inputs' = inputs /\ outputs' = outputs /\ status' = "alive") ]_vars

\* C3: no call of the builder crashes the process; a failure, such as
\* add_input with a txid that is not 64 hex characters, is a returned error.
C3_NoCallCrashes ==
    last.result \in {"ok", "err"} /\ status # "panicked"

\* C4 as claimed: once a sign call has stored an unlocking script, no later
\* add_input or add_output changes the input list or the output list.
C4_NoAddAfterSign ==
    [][ (AnySigned(inputs) /\ IsAdd(last'))
            => (Len(inputs') = Len(inputs) /\ outputs' = outputs) ]_vars

\* C4 as amended: add_input and add_output stay callable once a sign call has
\* stored an unlocking script, and such a call only appends one element:
\* every input already there, its unlocking script included, and every output
\* already there is left as it was.
C4_AddAfterSignOnlyAppends ==
    [][ (AnySigned(inputs) /\ IsAdd(last') /\ last'.result = "ok")
            => /\ Len(inputs') + Len(outputs') = Len(inputs) + Len(outputs) + 1
               /\ Len(inputs') >= Len(inputs)
               /\ Len(outputs') >= Len(outputs)
               /\ \A n \in 1..Len(inputs) : inputs'[n] = inputs[n]
               /\ \A n \in 1..Len(outputs) : outputs'[n] = outputs[n] ]_vars

\* an add_input or add_output has returned on a builder that holds a signature
C4_Witness ==
    /\ IsAdd(last) /\ last.result = "ok"
    /\ AnySigned(inputs)
    /\ \E n \in 1..Len(inputs) : signed_by[n].op # "none" /\ signed_by[n].at # <<Len(inputs), Len(outputs)>>

\* the script the sign call `by` would write into input n (1-based) of the
\* builder (ins, outs)
ResignScript(ins, outs, n, by) ==
    IF by.op = "sign_input"
    THEN sign_input_result(ins, outs, n - 1, by.keys[1], by.script_code).inputs[n].script_sig
    ELSE sign_input_p2sh_multisig_result(ins, outs, n - 1, by.keys, by.script_code).inputs[n].script_sig

\* the sign call made at least one signature
MadeSignature(by) == by.op # "none" /\ Len(by.keys) > 0

\* C5: when add_input or add_output returns, every input signed before (by a
\* call that made at least one signature) keeps the unlocking script it had,
\* and that script differs from the one the same sign call, with the same
\* key(s) and scriptCode, would write on the builder as it now is.
C5_AddAfterSignInvalidates ==
    [][ (IsAdd(last') /\ last'.result = "ok")
            => \A n \in 1..Len(inputs) :
                  MadeSignature(signed_by[n])
                    => /\ Len(inputs') >= n
                       /\ inputs'[n].script_sig = inputs[n].script_sig
                       /\ inputs'[n].script_sig # ResignScript(inputs', outputs', n, signed_by[n]) ]_vars

\* an output was added right after input 0 was signed by sign_input
C5_Witness ==
    /\ last.op = "add_output" /\ last.result = "ok"
    /\ Len(inputs) >= 1
    /\ signed_by[1].op = "sign_input"
    /\ signed_by[1].at = <<Len(inputs), Len(outputs) - 1>>

\* the input list with every unlocking script emptied
Unsigned(ins) == [n \in 1..Len(ins) |-> [ins[n] EXCEPT !.script_sig = EmptyScript]]

\* input n was signed and neither list has grown since
Fresh(n) == signed_by[n].op # "none" /\ signed_by[n].at = <<Len(inputs), Len(outputs)>>

\* C6: whatever the order in which the inputs were signed, and whatever the
\* other inputs hold, an input signed since the last add_input/add_output
\* holds exactly the script its sign call writes on the builder with no input
\* signed at all.
C6_SigningOrderIrrelevant ==
    status = "alive"
        => \A n \in 1..Len(inputs) :
              Fresh(n) => inputs[n].script_sig = ResignScript(Unsigned(inputs), outputs, n, signed_by[n])

\* two inputs, both signed with a signature, the second one first
C6_Witness ==
    /\ status = "alive"
    /\ Len(inputs) = 2
    /\ Fresh(1) /\ Fresh(2)
    /\ MadeSignature(signed_by[1]) /\ MadeSignature(signed_by[2])
    /\ IsSign(last) /\ last.input_index = 0 /\ ~last.rep

\* C7: a sign call that repeats the call before it (same method, same input,
\* same key(s), same scriptCode, nothing in between) leaves the builder as the
\* first call left it.
C7_ResignIsIdempotent ==
    [][ (IsSign(last') /\ last'.rep /\ last'.result = "ok")
            => (inputs' = inputs /\ outputs' = outputs) ]_vars

\* a sign call that made a signature was repeated
C7_Witness ==
    /\ IsSign(last) /\ last.rep /\ last.result = "ok"
    /\ Len(last.keys) > 0
    /\ inputs[last.input_index + 1].script_sig # EmptyScript

\* C8: a sign call that returns changes the unlocking script of its input
\* and nothing else of the builder.
C8_SignChangesOnlyTargetScript ==
    [][ (IsSign(last') /\ last'.result = "ok")
            => /\ Len(inputs') = Len(inputs)
               /\ outputs' = outputs
               /\ \A n \in 1..Len(inputs) :
                     /\ inputs'[n].previous_output = inputs[n].previous_output
                     /\ inputs'[n].sequence = inputs[n].sequence
                     /\ inputs'[n].witness = inputs[n].witness
                     /\ (n # last'.input_index + 1) => inputs'[n].script_sig = inputs[n].script_sig ]_vars

\* a sign call wrote input 1 while input 0 held a script and an output existed
C8_Witness ==
    /\ IsSign(last) /\ last.result = "ok" /\ last.input_index = 1
    /\ Len(inputs) = 2 /\ Len(outputs) >= 1
    /\ inputs[1].script_sig # EmptyScript
    /\ inputs[2].script_sig # EmptyScript
    /\ inputs[1].script_sig # inputs[2].script_sig

\* the last Transaction returned
LastTx == txs[Len(txs)]

\* C9: the Transaction build() returns lists the previous outputs of the
\* add_input calls in call order and the outputs of the add_output calls in
\* call order, as many as there were calls, each output with its amount.
C9_BuildKeepsCallOrder ==
    (last.op \in {"build", "clone_build"})
        => /\ Len(LastTx.input) = Len(hist_in)
           /\ \A k \in 1..Len(hist_in) :
                 LastTx.input[k].previous_output =
                     [txid |-> TxidFromStr(hist_in[k][1]).txid, vout |-> hist_in[k][2]]
           /\ Len(LastTx.output) = Len(hist_out)
           /\ \A k \in 1..Len(hist_out) :
                 /\ LastTx.output[k].value = hist_out[k][2]
                 /\ LastTx.output[k].script_pubkey = OutputScript(hist_out[k][1])

\* built after two different add_input, two different add_output and a sign
C9_Witness ==
    /\ last.op = "build"
    /\ Len(hist_in) = 2 /\ hist_in[1] # hist_in[2]
    /\ Len(hist_out) = 2 /\ hist_out[1] # hist_out[2]
    /\ AnySigned(LastTx.input)

\* C10: nothing is called on a builder after build() took it; only build()
\* (on the builder or on a clone of it) yields a Transaction; and a
\* Transaction once returned is not changed by what is done to the builder it
\* was cloned from.
C10_BuildIsTerminal ==
    [][ /\ last.op # "build"
        /\ (txs' # txs) => (last'.op \in {"build", "clone_build"} /\ Len(txs') = Len(txs) + 1)
        /\ \A k \in 1..Len(txs) : Len(txs') >= k /\ txs'[k] = txs[k] ]_vars

\* a clone was built, the builder went on to be signed, then it was built
C10_Witness ==
    /\ status = "built"
    /\ Len(txs) = 2
    /\ txs[1] # txs[2]
    /\ ~AnySigned(txs[1].input) /\ AnySigned(txs[2].input)

\* C11: every input of the builder has sequence number 0xFFFFFFFD (bytes FD
\* FF FF FF, least significant first), and an input no sign call has targeted
\* has an empty unlocking script.
C11_SequenceFixedScriptEmptyUntilSigned ==
    \A n \in 1..Len(inputs) :
        /\ inputs[n].sequence = <<253, 255, 255, 255>>
        /\ signed_by[n].op = "none" => inputs[n].script_sig = << >>

\* three inputs: the middle one signed, the ones around it never targeted
C11_Witness ==
    /\ status = "alive"
    /\ Len(inputs) = 3
    /\ signed_by[1].op = "none" /\ signed_by[3].op = "none"
    /\ signed_by[2].op # "none" /\ inputs[2].script_sig # << >>

\* the digests the signatures of an unlocking script commit to
SignedDigests(script_sig) ==
    { script_sig[j].data.der.msg.sha256d :
        j \in { i \in 1..Len(script_sig) : "der" \in DOMAIN script_sig[i].data } }

\* C12: every Transaction build() has returned has version 1 and lock time 0,
\* and so has the snapshot hashed for every signature stored in the builder
\* or in a returned Transaction.
C12_VersionOneLockTimeZero ==
    /\ \A k \in 1..Len(txs) :
          /\ txs[k].version = 1 /\ txs[k].lock_time = 0
          /\ \A n \in 1..Len(txs[k].input) :
                \A d \in SignedDigests(txs[k].input[n].script_sig) :
                    d.version = txs[k].version /\ d.lock_time = txs[k].lock_time
    /\ \A n \in 1..Len(inputs) :
          \A d \in SignedDigests(inputs[n].script_sig) : d.version = 1 /\ d.lock_time = 0

\* a built Transaction with a P2PKH-signed and a multisig-signed input
C12_Witness ==
    /\ last.op = "build"
    /\ Len(LastTx.input) = 2
    /\ signed_by[1].op = "sign_input"
    /\ signed_by[2].op = "sign_input_p2sh_multisig" /\ Len(signed_by[2].keys) = 2
    /\ SignedDigests(LastTx.input[1].script_sig) # {}
    /\ SignedDigests(LastTx.input[2].script_sig) # {}

\* C17: the unlocking script sign_input_p2sh_multisig stores is OP_0, then
\* for each key supplied, in the order supplied, one push of that key's
\* signature followed by the byte 0x01, then one push of the redeem script;
\* the signatures are over the digest of the builder as it was at the call.
\* Keys given twice are signed twice.
C17_MultisigScriptInKeyOrder ==
    /\ \A n \in 1..Len(inputs) :
          signed_by[n].op = "sign_input_p2sh_multisig"
            => LET sig == inputs[n].script_sig
                   keys == signed_by[n].keys
               IN  /\ Len(sig) = Len(keys) + 2
                   /\ sig[1] = [op |-> "OP_PUSHBYTES_0", data |-> [none |-> TRUE]]
                   /\ \A j \in 1..Len(keys) :
                         /\ sig[j + 1].op = "PUSHBYTES"
                         /\ sig[j + 1].data.der.key = keys[j]
                         /\ sig[j + 1].data.hashtype = 1
                         /\ Fresh(n) =>
                              sig[j + 1].data.der.msg =
                                 legacy_signature_hash(to_transaction_ref(inputs, outputs),
                                                       n - 1, signed_by[n].script_code, 1).sighash
                   /\ sig[Len(sig)] = [op |-> "PUSHBYTES", data |-> [script |-> signed_by[n].script_code]]
    /\ Len(MultisigScriptSig(<<1, 1>>, [none |-> TRUE], RedeemScript)) = 4

\* an input signed with the keys in descending order
C17_Witness ==
    /\ status = "alive"
    /\ \E n \in 1..Len(inputs) :
          /\ signed_by[n].op = "sign_input_p2sh_multisig"
          /\ signed_by[n].keys = <<2, 1>>
          /\ Fresh(n)
          /\ Len(inputs[n].script_sig) = 4

\* C18: an add_output call appends exactly one output; its script is
\* OP_DUP OP_HASH160 <hash20> OP_EQUALVERIFY OP_CHECKSIG for a P2PKH address
\* and OP_HASH160 <hash20> OP_EQUAL for a P2SH address, hash20 being bytes
\* 2..21 of the payload; its amount is the u64 given, all 64 bits of it; the
\* inputs and the outputs already there are unchanged.
C18_AddOutputAppendsOne ==
    [][ LET a == hist_out'[Len(hist_out')]
            address == a[1]
            hash20 == [i \in 1..20 |-> address.payload[i + 1]]
            new == outputs'[Len(outputs')]
            code(item) == item.op
        IN  /\ last'.op = "add_output"
            /\ Len(outputs') = Len(outputs) + 1
            /\ SubSeq(outputs', 1, Len(outputs)) = outputs
            /\ inputs' = inputs
            /\ new.value = a[2]
            /\ address.payload[1] \in {113, 30} =>
                  /\ [i \in 1..5 |-> code(new.script_pubkey[i])] =
                        <<"OP_DUP", "OP_HASH160", "PUSHBYTES", "OP_EQUALVERIFY", "OP_CHECKSIG">>
                  /\ new.script_pubkey[3].data = [bytes |-> hash20]
                  /\ Len(new.script_pubkey) = 5
            /\ address.payload[1] \in {196, 22} =>
                  /\ [i \in 1..3 |-> code(new.script_pubkey[i])] =
                        <<"OP_HASH160", "PUSHBYTES", "OP_EQUAL">>
                  /\ new.script_pubkey[2].data = [bytes |-> hash20]
                  /\ Len(new.script_pubkey) = 3
      ]_vars

\* u64::MAX paid to a P2SH address after 50 DOGE to a P2PKH address, on a
\* builder holding an input
C18_Witness ==
    /\ Len(inputs) = 1
    /\ Len(outputs) = 2
    /\ outputs[1].value = FiftyDoge /\ Len(outputs[1].script_pubkey) = 5
    /\ outputs[2].value = U64Max /\ Len(outputs[2].script_pubkey) = 3

\* C15: multisig_redeem_script returns a script exactly when
\* 1 <= m <= len(pubkeys) <= 16 and every pubkey has 33 bytes, and an error
\* in every other case.
C15_MultisigErrorsExactly ==
    last.op = "multisig_redeem_script" =>
        (last.result.ok <=>
            /\ 1 <= last.m
            /\ last.m <= Len(last.pubkeys)
            /\ Len(last.pubkeys) <= 16
            /\ \A i \in 1..Len(last.pubkeys) : Len(last.pubkeys[i]) = 33)

\* C16: a script multisig_redeem_script returns is OP_m, one push of each
\* pubkey in the order given, OP_n for n the number of pubkeys, and
\* OP_CHECKMULTISIG, with m and n as push-small-number opcodes.
C16_MultisigScriptShape ==
    (last.op = "multisig_redeem_script" /\ last.result.ok) =>
        LET script == last.result.script
            count == Len(last.pubkeys)
        IN  /\ last.m \in 1..16 /\ count \in 1..16
            /\ Len(script) = count + 3
            /\ script[1] = [op |-> PushNumOpcodes[last.m], data |-> [none |-> TRUE]]
            /\ \A i \in 1..count :
                  script[i + 1] = [op |-> "PUSHBYTES", data |-> [bytes |-> last.pubkeys[i]]]
            /\ script[count + 2] = [op |-> PushNumOpcodes[count], data |-> [none |-> TRUE]]
            /\ script[count + 3] = [op |-> "OP_CHECKMULTISIG", data |-> [none |-> TRUE]]

\* the string is the word, letter for letter, in any mix of ASCII cases
SameIgnoringCase(str, word) ==
    /\ Len(str) = Len(word)
    /\ \A k \in 1..Len(word) : str[k] = word[k] \/ str[k] = AsciiUpper[word[k]]

\* C20: parsing a network name gives Testnet for "testnet" and "test" and
\* Mainnet for "mainnet" and "main", in any mix of upper and lower case, and
\* fails with the unknown-network error for every other string, the empty
\* string and names with whitespace around them included.
C20_NetworkNamesExactly ==
    last.op = "from_str" =>
        LET testnet == SameIgnoringCase(last.s, StrTestnet) \/ SameIgnoringCase(last.s, StrTest)
            mainnet == SameIgnoringCase(last.s, StrMainnet) \/ SameIgnoringCase(last.s, StrMain)
        IN  /\ testnet => last.result = [ok |-> TRUE, network |-> "Testnet", err |-> "none"]
            /\ mainnet => last.result = [ok |-> TRUE, network |-> "Mainnet", err |-> "none"]
            /\ ~(testnet \/ mainnet) =>
                  last.result = [ok |-> FALSE, network |-> "none", err |-> "Unknown network"]

\* "MAINNET" parsed
C20_Witness ==
    /\ last.op = "from_str"
    /\ last.s = <<"M", "A", "I", "N", "N", "E", "T">>
    /\ last.result.ok /\ last.result.network = "Mainnet"

\* a name with a space in front refused
C20_WitnessRefused ==
    /\ last.op = "from_str"
    /\ last.s = <<" ">> \o StrTestnet
    /\ ~last.result.ok

\* C13: the string of an address made by from_pubkey_hash or from_script_hash
\* parses back to an address with the same 21-byte payload, the same network
\* and the same kind, for either network and either kind.
C13_Base58RoundTrip ==
    (/\ last.op = "from_base58"
     /\ last.derived.how = "none"
     /\ last.ctor \in {"from_pubkey_hash", "from_script_hash"}) =>
        /\ last.result.ok
        /\ Len(last.result.address.payload) = 21
        /\ last.result.address.payload = last.address.payload
        /\ last.result.address.network = last.address.network
        /\ kind(last.result.address) =
              (IF last.ctor = "from_pubkey_hash" THEN "P2pkh" ELSE "P2sh")

\* a Mainnet P2SH address of the hash 00..00 went to its string and back
C13_Witness ==
    /\ last.op = "from_base58"
    /\ last.derived.how = "none"
    /\ last.ctor = "from_script_hash"
    /\ last.address = [payload |-> <<22>> \o Hash20Zero, network |-> "Mainnet"]
    /\ Len(last.text) = 34
    /\ last.result.ok

\* C14: from_base58 returns an error for a string derived from the string of
\* an address by flipping a bit of the checksum, by cutting the payload short
\* (with the checksum kept or recomputed), or by using a version byte other
\* than 0x71, 0xC4, 0x1E and 0x16.
C14_DerivedStringsRefused ==
    (/\ last.op = "from_base58"
     /\ \/ last.derived.how \in {"flip", "cut", "cut_recheck"}
        \/ last.derived.how = "version" /\ last.derived.a \notin {113, 196, 30, 22}) =>
        /\ ~last.result.ok
        /\ last.result.err.kind \in {"InvalidBase58Check", "InvalidLength", "UnknownVersionByte"}

\* a string with a checksum bit flipped was refused for its checksum
C14_Witness ==
    /\ last.op = "from_base58"
    /\ last.derived = [how |-> "flip", a |-> 4, b |-> 7]
    /\ ~last.result.ok
    /\ last.result.err.cause = "IncorrectChecksum"

\* a string with the version byte 0 and a good checksum was refused for its
\* version byte
C14_WitnessVersion ==
    /\ last.op = "from_base58"
    /\ last.derived = [how |-> "version", a |-> 0, b |-> 0]
    /\ last.text[1] = "1"
    /\ last.result.err.kind = "UnknownVersionByte"

\* the address has 21 bytes, the first one a version byte of its own network,
\* and kind() names the one it is
WellFormedAddress(address) ==
    /\ Len(address.payload) = 21
    /\ address.network \in {"Testnet", "Mainnet"}
    /\ address.network = "Testnet" => address.payload[1] \in {113, 196}
    /\ address.network = "Mainnet" => address.payload[1] \in {30, 22}
    /\ kind(address) = (IF address.payload[1] \in {113, 30} THEN "P2pkh" ELSE "P2sh")

\* C19: every address made by from_pubkey, from_pubkey_hash or
\* from_script_hash, or returned by a successful from_base58, has a 21-byte
\* payload whose first byte is the P2PKH or the P2SH version byte of the
\* address's own network, and kind() reports the one that matched.
C19_AddressesWellFormed ==
    /\ last.op = "constructed" => WellFormedAddress(last.address)
    /\ (last.op = "from_base58" /\ last.result.ok) => WellFormedAddress(last.result.address)

\* a Testnet address's string, given the Mainnet P2SH version byte, parsed
\* as a Mainnet P2SH address
C19_Witness ==
    /\ last.op = "from_base58"
    /\ last.address.network = "Testnet"
    /\ last.derived = [how |-> "version", a |-> 22, b |-> 0]
    /\ last.result.ok
    /\ last.result.address.network = "Mainnet"
    /\ kind(last.result.address) = "P2sh"

\* the string of 25 bytes: the version byte, then 24 times the byte `fill`
\* for the hash and the checksum
FilledString(version, fill) == Base58Encode(<<version>> \o [i \in 1..24 |-> fill])

\* C21: the string of a Testnet P2PKH address starts with "n" or "m" and the
\* string of a Mainnet P2PKH address starts with "D", whatever the 20-byte
\* hash.  The strings of the least and of the greatest 25-byte number with
\* the version byte have the same length and such a first character, so
\* every hash and every checksum between them has it too.
C21_P2pkhFirstCharacter ==
    /\ (/\ last.op = "to_string"
        /\ last.derived.how = "none"
        /\ last.ctor \in {"from_pubkey_hash", "from_pubkey"}) =>
          /\ last.address.network = "Testnet" => last.text[1] \in {"n", "m"}
          /\ last.address.network = "Mainnet" => last.text[1] = "D"
    /\ \A fill \in {0, 255} :
          /\ Len(FilledString(113, fill)) = 34 /\ FilledString(113, fill)[1] \in {"n", "m"}
          /\ Len(FilledString(30, fill)) = 34 /\ FilledString(30, fill)[1] = "D"

\* the Mainnet P2PKH address of the hash FF..FF written out
C21_Witness ==
    /\ last.op = "to_string"
    /\ last.derived.how = "none"
    /\ last.ctor = "from_pubkey_hash"
    /\ last.address = [payload |-> <<30>> \o Hash20Max, network |-> "Mainnet"]
    /\ last.text[1] = "D"

\* the inputs with every unlocking script replaced by the given one
WithScripts(ins, script) == [n \in 1..Len(ins) |-> [ins[n] EXCEPT !.script_sig = script]]

\* the digest signed for input_index (0-based) with the given inputs
DigestOf(ins, input_index, script_code) ==
    legacy_signature_hash(to_transaction_ref(ins, outputs), input_index, script_code, 1)

\* C22: the digest signed for an input is the same on builders that differ
\* only in the unlocking scripts their inputs hold, the input's own included:
\* the builder as it is, the builder with every script empty and the builder
\* with every script set to some other script give one digest, for every
\* input and every scriptCode; and the digest holds the previous outputs and
\* sequences of the inputs, the outputs, and scriptCode at the input.
C22_DigestIgnoresStoredScripts ==
    \A n \in 1..Len(inputs), script_code \in ScriptCodes :
        LET digest == DigestOf(inputs, n - 1, script_code)
        IN  /\ digest.ok
            /\ digest = DigestOf(WithScripts(inputs, << >>), n - 1, script_code)
            /\ digest = DigestOf(WithScripts(inputs, PrevScriptPubkey), n - 1, script_code)
            /\ digest = DigestOf(WithScripts(inputs, inputs[n].script_sig), n - 1, script_code)
            /\ digest.sighash.sha256d.output = outputs
            /\ \A k \in 1..Len(inputs) :
                  /\ digest.sighash.sha256d.input[k].previous_output = inputs[k].previous_output
                  /\ digest.sighash.sha256d.input[k].sequence = inputs[k].sequence
                  /\ digest.sighash.sha256d.input[k].script_sig =
                        (IF k = n THEN script_code ELSE << >>)

\* two inputs, each holding a script of another sign method
C22_Witness ==
    /\ status = "alive"
    /\ Len(inputs) = 2
    /\ signed_by[1].op = "sign_input_p2sh_multisig" /\ Len(inputs[1].script_sig) = 4
    /\ signed_by[2].op = "sign_input" /\ Len(inputs[2].script_sig) = 2

\* C23: from_base58 of a checksum-valid 21-byte payload returns a Testnet
\* P2PKH address for the version byte 0x71, Testnet P2SH for 0xC4, Mainnet
\* P2PKH for 0x1E, Mainnet P2SH for 0x16, each with the payload as it was,
\* and UnknownVersionByte carrying the byte for each of the other 252.
C23_VersionByteDispatch ==
    (last.op = "from_base58" /\ last.derived.how = "version") =>
        LET version == last.derived.a
            known == [network |-> IF version \in {113, 196} THEN "Testnet" ELSE "Mainnet",
                      kind |-> IF version \in {113, 30} THEN "P2pkh" ELSE "P2sh"]
        IN  IF version \in {113, 196, 30, 22}
            THEN /\ last.result.ok
                 /\ last.result.address.payload = last.address.payload
                 /\ last.result.address.network = known.network
                 /\ kind(last.result.address) = known.kind
            ELSE /\ ~last.result.ok
                 /\ last.result.err.kind = "UnknownVersionByte"
                 /\ last.result.err.version = version

\* the version byte 0x16 gave a Mainnet P2SH address
C23_Witness ==
    /\ last.op = "from_base58"
    /\ last.ctor = "none"
    /\ last.derived = [how |-> "version", a |-> 22, b |-> 0]
    /\ last.result.ok
    /\ last.result.address.network = "Mainnet"

\* the version byte 0x6F, Bitcoin's Testnet P2PKH byte, was refused
C23_WitnessUnknown ==
    /\ last.op = "from_base58"
    /\ last.ctor = "none"
    /\ last.derived.a = 111
    /\ last.result.err = [kind |-> "UnknownVersionByte", cause |-> "none", len |-> 0,
                          version |-> 111]

\* the (network, kind) pairs whose version byte is the given byte
PairsOf(version) ==
    { pair \in Networks \X {"P2pkh", "P2sh"} :
        version = (IF pair[2] = "P2pkh" THEN p2pkh_version_byte(pair[1])
                   ELSE p2sh_version_byte(pair[1])) }

\* C24: the four address version bytes are pairwise distinct: the registry
\* holds four different bytes, no version byte belongs to more than one
\* (network, kind) pair, and an address from_base58 returns has the one
\* network that owns its version byte.
C24_VersionBytesDistinct ==
    /\ Cardinality({ p2pkh_version_byte(nw) : nw \in Networks }
                       \cup { p2sh_version_byte(nw) : nw \in Networks }) = 4
    /\ (last.op = "from_base58" /\ last.derived.how = "version") =>
          /\ Cardinality(PairsOf(last.derived.a)) <= 1
          /\ last.result.ok =>
                PairsOf(last.derived.a) =
                    { <<last.result.address.network, kind(last.result.address)>> }

\* a string with Testnet's P2SH byte parsed, the byte owned by one pair
C24_Witness ==
    /\ last.op = "from_base58"
    /\ last.ctor = "none"
    /\ last.derived.a = 196
    /\ last.result.ok
    /\ PairsOf(196) = { <<"Testnet", "P2sh">> }

\* the 32 bytes a 64-digit hex identifier displays, first byte first
DisplayedBytes(txid_hex) == [j \in 1..32 |-> 16 * txid_hex[2 * j - 1] + txid_hex[2 * j]]

\* the previous output is the identifier's bytes last to first, and the index
SpendsReversed(txin, args) ==
    LET shown == DisplayedBytes(args[1])
    IN  /\ txin.previous_output.txid = [k \in 1..32 |-> shown[33 - k]]
        /\ txin.previous_output.vout = args[2]

\* C25: the previous transaction id of every input, in the builder, in the
\* snapshot that is hashed and in every Transaction built, is the 32 bytes of
\* the hex identifier add_input was given in reversed order, and the output
\* index is the one given.
C25_TxidReversedOnWire ==
    /\ \A n \in 1..Len(inputs) :
          /\ SpendsReversed(inputs[n], hist_in[n])
          /\ SpendsReversed(DigestOf(inputs, n - 1, << >>).sighash.sha256d.input[n], hist_in[n])
    /\ (last.op \in {"build", "clone_build"}) =>
          \A n \in 1..Len(LastTx.input) : SpendsReversed(LastTx.input[n], hist_in[n])
    /\ DisplayedBytes(GoodTxidA)[1] = 126

\* a Transaction built whose second input spends output 1 of the second
\* identifier: its first byte on the wire is the last byte displayed
C25_Witness ==
    /\ last.op = "build"
    /\ Len(LastTx.input) = 2
    /\ hist_in[2] = <<GoodTxidB, 1>>
    /\ LastTx.input[2].previous_output.vout = 1
    /\ LastTx.input[2].previous_output.txid[1] = 16 * GoodTxidB[63] + GoodTxidB[64]
    /\ LastTx.input[2].previous_output.txid[1] # DisplayedBytes(GoodTxidB)[1]

\* the number a push-small-number opcode stands for
PushNumOf(item) == CHOOSE k \in 1..16 : PushNumOpcodes[k] = item.op

\* C26: in a script multisig_redeem_script returns, the opcode after the
\* pushes is a push-small-number opcode, and its number n is the number of
\* pubkey pushes in the script and the number of pubkeys given.
C26_TrailingCountIsPushCount ==
    (last.op = "multisig_redeem_script" /\ last.result.ok) =>
        LET script == last.result.script
            pushes == { i \in 1..Len(script) : script[i].op = "PUSHBYTES" }
            trailing == script[Len(script) - 1]
        IN  /\ \E k \in 1..16 : PushNumOpcodes[k] = trailing.op
            /\ PushNumOf(trailing) = Cardinality(pushes)
            /\ PushNumOf(trailing) = Len(last.pubkeys)

\* the sum of the amounts of the outputs, and whether it left the u64 range
OutputTotal(outs) ==
    IF Len(outs) = 1 THEN [value |-> outs[1].value, overflow |-> FALSE]
    ELSE U64Add(outs[1].value, outs[2].value)

\* C27: when the sign command emits a transaction, amount + fee does not
\* exceed the input value, the change is input value - amount - fee with no
\* overflow or underflow, the outputs are the destination output and, only
\* when the change is positive, the change output, and the output total plus
\* the fee is the input value; otherwise the command stops with nothing
\* built, and it never aborts on an arithmetic overflow.
C27_SignArithmetic ==
    last.op = "cmd_sign" =>
        /\ last.outcome # "panic"
        /\ last.outcome = "insufficient" => (txs = << >> /\ inputs = << >> /\ outputs = << >>)
        /\ last.outcome = "emitted" =>
              LET need == U64Add(last.amount, last.fee)
                  tx == txs[1]
                  total == OutputTotal(tx.output)
              IN  /\ ~need.overflow
                  /\ ~U64Less(last.input_value, need.value)
                  /\ U64Add(need.value, last.change_value) =
                        [value |-> last.input_value, overflow |-> FALSE]
                  /\ tx.output[1].value = last.amount
                  /\ Len(tx.output) = (IF last.change_value = <<0, 0, 0, 0>> THEN 1 ELSE 2)
                  /\ Len(tx.output) = 2 => tx.output[2].value = last.change_value
                  /\ ~total.overflow
                  /\ U64Add(total.value, last.fee) =
                        [value |-> last.input_value, overflow |-> FALSE]

\* the P2SH version byte of each network
P2shByteOf == [Testnet |-> 196, Mainnet |-> 22]

\* C28: kind() returns for every address with fields set directly: P2sh
\* exactly when the first payload byte is the P2SH version byte of the
\* address's own network, P2pkh for every other byte; and add_output appends
\* a P2PKH locking script for an address whose first byte is neither version
\* byte of its network.
C28_KindTotalOnDirectAddresses ==
    /\ last.op = "kind" =>
          /\ last.result \in {"P2pkh", "P2sh"}
          /\ last.result = "P2sh" <=>
                last.address.payload[1] = P2shByteOf[last.address.network]
    /\ last.op = "add_output" =>
          /\ last.result = "ok"
          /\ LET address == hist_out[1][1]
                 script == outputs[1].script_pubkey
             IN  IF address.payload[1] = P2shByteOf[address.network]
                 THEN Len(script) = 3 /\ script[1].op = "OP_HASH160"
                 ELSE Len(script) = 5 /\ script[1].op = "OP_DUP"

\* C29: for a redeem script and a network, the locking script add_output
\* appends for the address from_script_hash(redeem_script_hash160(redeem),
\* network) is the script p2sh_script_pubkey(redeem) returns: OP_HASH160, a
\* push of the 20-byte hash of the redeem script, OP_EQUAL.
C29_P2shPathsAgree ==
    last.op = "add_output" =>
        LET appended == outputs[Len(outputs)].script_pubkey
        IN  /\ appended = last.script
            /\ Len(last.hash) = 20
            /\ appended = << [op |-> "OP_HASH160", data |-> [none |-> TRUE]],
                             [op |-> "PUSHBYTES", data |-> [bytes |-> last.hash]],
                             [op |-> "OP_EQUAL", data |-> [none |-> TRUE]] >>

\* a 2-of-3 redeem script paid to on Mainnet
C29_Witness ==
    /\ last.op = "add_output"
    /\ last.network = "Mainnet"
    /\ Len(last.redeem) = 6
    /\ last.redeem[1].op = "OP_PUSHNUM_2" /\ last.redeem[5].op = "OP_PUSHNUM_3"
    /\ Len(as_bytes(last.redeem)) = 105
    /\ Len(outputs) = 1

\* C30: for a string from_base58 accepts, to_string of the address it
\* returns is that string, character for character.
C30_ParseThenPrintIsIdentity ==
    (last.op = "from_base58" /\ last.result.ok) =>
        /\ to_string(last.result.address) = last.text
        /\ Len(last.text) \in {34, 35}

\* the string of a Testnet address, rewritten with Mainnet's P2SH byte and a
\* new checksum, was accepted and printed back as it was
C30_Witness ==
    /\ last.op = "from_base58"
    /\ last.derived = [how |-> "version", a |-> 22, b |-> 0]
    /\ last.address.network = "Testnet"
    /\ last.result.ok
    /\ last.text # to_string(last.address)
    /\ to_string(last.result.address) = last.text

====
